---- MODULE Spec2Model ----
(***************************************************************************)
(* Model of the sentiment-analysis serving path:                           *)
(*   ml/api/predict.py            predict_post, predict_batch,             *)
(*                                _stub_response, _real_pipeline,          *)
(*                                _load_models                             *)
(*   backend/app/routes/predict.py     create_prediction, batch_predict    *)
(*                                                                         *)
(* backend/app/routes/sentiments.py (analyze_post) imports models.Post,    *)
(* which models.py does not define: the module cannot be imported, so no   *)
(* request reaches analyze_post and there is no table behind it.           *)
(*                                                                         *)
(* Strings are sequences of tokens, scores are hundredths (0.85 is 85).    *)
(* Python's None is the string None for optional strings and NoModel for   *)
(* the four model globals.                                                 *)
(***************************************************************************)
EXTENDS Integers, Sequences, FiniteSets, TLC

\* ------------------------------------------------------------- bounds
NumThreads == 2
MaxCalls == 2
MaxTextLen == 2
MaxContext == 4
MaxRequests == 2
MaxBatch == 2
MaxBatchRequests == 1

Threads == 1..NumThreads

\* ---------------------------------------------------------- constants
None == "<None>"
NoModel == 0
StubTextLimit == 500
ContextWindow == 3
CrisisScoreThreshold == 85
StubScore == 91
StubSarcasmScore == 3
StubTopicId == 0
AlertWindowPosts == 1
AlertNegativePct == 0
AlertZScore == 0

\* ------------------------------------------------------ small helpers
Min(a, b) == IF a < b THEN a ELSE b

Max(a, b) == IF a < b THEN b ELSE a

\* s[:n]
Take(s, n) == SubSeq(s, 1, Min(Len(s), n))

\* s[-n:]
LastN(s, n) == SubSeq(s, Max(1, Len(s) - n + 1), Len(s))

\* Python truthiness of an Optional[str]: None and "" are falsy.
Truthy(b) == b # None /\ b # ""

\* x in list
InList(x, l) == \E i \in 1..Len(l) : l[i] = x

\* sep.join(parts), on token strings
RECURSIVE Join(_, _)
Join(sep, parts) ==
    IF Len(parts) = 0 THEN <<>>
    ELSE IF Len(parts) = 1 THEN parts[1]
    ELSE parts[1] \o sep \o Join(sep, Tail(parts))

Space == <<" ">>

\* ------------------------------------------------------ input domains
Tokens == {"nike", "adidas", "**"}

Platforms == {"reddit", "news"}

BrandArgs == {None, "", "Nike", "Puma"}

ContextPosts == {<<"old">>, <<"brand", "new">>}

RECURSIVE SeqsUpTo(_, _)
SeqsUpTo(S, n) ==
    IF n = 0 THEN {<<>>}
    ELSE LET shorter == SeqsUpTo(S, n - 1)
         IN  shorter \cup {Append(s, x) : s \in {q \in shorter : Len(q) = n - 1}, x \in S}

Texts == SeqsUpTo(Tokens, MaxTextLen)

Labels == {"positive", "neutral", "negative"}

\* ------------------------------------------------------------------
\* Collaborators that the pipeline imports at call time
\* (src.preprocessing.cleaner, src.brand.detector, src.attribution.engine,
\* src.models.*).  They are modelled from their described contracts.
\* ------------------------------------------------------------------

\* clean(text, platform): platform-aware stripping; reddit markdown is
\* removed from reddit posts.  An empty result means "nothing usable".
clean(text, platform) ==
    SelectSeq(text, LAMBDA tok : ~(platform = "reddit" /\ tok = "**"))

BrandOf(tok) ==
    IF tok = "nike" THEN "Nike" ELSE IF tok = "adidas" THEN "Adidas" ELSE None

\* detect_with_positions(text): one BrandMention per lexical match.
RECURSIVE MentionsFrom(_, _)
MentionsFrom(text, i) ==
    IF i > Len(text) THEN <<>>
    ELSE IF BrandOf(text[i]) # None
         THEN <<[brand |-> BrandOf(text[i]), start |-> i - 1, end |-> i]>>
              \o MentionsFrom(text, i + 1)
         ELSE MentionsFrom(text, i + 1)

detect_with_positions(text) == MentionsFrom(text, 1)

\* Brands of a list in first-seen order, without repeats.
RECURSIVE Dedupe(_)
Dedupe(l) ==
    IF Len(l) = 0 THEN <<>>
    ELSE LET front == Dedupe(SubSeq(l, 1, Len(l) - 1))
             last  == l[Len(l)]
         IN  IF InList(last, front) THEN front ELSE Append(front, last)

\* detect(text): the brands mentioned, in detection order.
detect(text) ==
    LET m == detect_with_positions(text)
    IN  Dedupe([i \in 1..Len(m) |-> m[i].brand])

\* Classifier outputs.  The sentiment and sarcasm classifiers are opaque and
\* deterministic: an answer is chosen when a text is first scored and the
\* same answer is given for that text from then on (see classifier below).
SentimentScores == {40, 85, 86}

SentimentResults == [label : Labels, score : SentimentScores]

SarcasmResults ==
    { [is_sarcastic |-> FALSE, score |-> 3],
      [is_sarcastic |-> TRUE,  score |-> 50],
      [is_sarcastic |-> TRUE,  score |-> 90] }

\* Emotion and topic classifiers: fixed canned implementations.
EmotionPredict(text) ==
    IF Len(text) = 1
    THEN [emotions |-> ("anger" :> 82), top_emotion |-> "anger"]
    ELSE [emotions |-> ("joy" :> 60 @@ "anger" :> 12), top_emotion |-> "joy"]

TopicPredict(text) ==
    [topic_id |-> Len(text), label |-> text[1], keywords |-> Take(text, 1)]

\* Confidence above which detected sarcasm inverts a brand's label.
SarcasmThreshold == 50

Invert(label) ==
    IF label = "positive" THEN "negative"
    ELSE IF label = "negative" THEN "positive" ELSE label

\* The local sentiment around one brand mention, a fixed canned
\* implementation: the text's first mention carries the sentence-level
\* label, a later one its inverse (as in "A is better than B").
LocalSentiment(sentiment_result, brand_positions, b) ==
    LET first == CHOOSE i \in 1..Len(brand_positions) : brand_positions[i].brand = b
    IN  [label |-> IF first = 1 THEN sentiment_result.label
                   ELSE Invert(sentiment_result.label),
         score |-> sentiment_result.score]

\* attribute(...): one judgment per brand of detected_brands, in order.
\* With several brands mentioned in the text a mentioned brand is
\* "comparative" and carries the local sentiment around its mention; a
\* brand alone, or without a mention (the requested fallback), is "default"
\* and carries the sentence-level sentiment.  Under confident sarcasm every
\* brand's label is inverted, its score reweighted by (1 - sarcasm score),
\* and its method becomes "conflict_resolved".
attribute(text, detected_brands, sentiment_result, sarcasm_result, brand_positions) ==
    LET brands == Dedupe(detected_brands)
        mentioned == Dedupe([i \in 1..Len(brand_positions) |-> brand_positions[i].brand])
        Sarcastic == sarcasm_result.is_sarcastic /\ sarcasm_result.score > SarcasmThreshold
        Base(b) ==
            IF InList(b, mentioned) /\ Len(mentioned) > 1
            THEN LET local == LocalSentiment(sentiment_result, brand_positions, b)
                 IN  [brand |-> b, sentiment |-> local.label, score |-> local.score,
                      method |-> "comparative"]
            ELSE [brand |-> b, sentiment |-> sentiment_result.label,
                  score |-> sentiment_result.score, method |-> "default"]
        One(b) ==
            IF Sarcastic
            THEN [brand |-> b,
                  sentiment |-> Invert(Base(b).sentiment),
                  score |-> (Base(b).score * (100 - sarcasm_result.score)) \div 100,
                  method |-> "conflict_resolved"]
            ELSE Base(b)
    IN  [i \in 1..Len(brands) |-> One(brands[i])]

\* resolve_conflicts(results): duplicate brand entries are merged, keeping
\* the highest-confidence one (the earliest among equals), order kept.
resolve_conflicts(results) ==
    LET Keep(i) == \A j \in 1..Len(results) :
                      (j # i /\ results[j].brand = results[i].brand)
                          => (results[j].score < results[i].score
                              \/ (results[j].score = results[i].score /\ i < j))
        RECURSIVE Pick(_)
        Pick(i) == IF i > Len(results) THEN <<>>
                   ELSE IF Keep(i) THEN <<results[i]>> \o Pick(i + 1)
                   ELSE Pick(i + 1)
    IN  Pick(1)

\* ------------------------------------------------------------------
\* ml/api/predict.py: response construction
\* ------------------------------------------------------------------

\* _stub_response(text, brand, platform)
_stub_response(text, brand, platform, at) ==
    LET detected_brand == IF Truthy(brand) THEN brand ELSE "Nike"
    IN  [text     |-> Take(text, StubTextLimit),
         platform |-> platform,
         overall  |-> [label |-> "positive", score |-> StubScore,
                       is_sarcastic |-> FALSE, sarcasm_score |-> StubSarcasmScore],
         brands   |-> <<[brand |-> detected_brand, sentiment |-> "positive",
                         score |-> StubScore, method |-> "default"]>>,
         emotions |-> [emotions |-> ("joy" :> 72 @@ "admiration" :> 41),
                       top_emotion |-> "joy"],
         topic    |-> [topic_id |-> StubTopicId, label |-> "placeholder_topic",
                       keywords |-> <<"placeholder">>],
         crisis   |-> [crisis_flag |-> FALSE, severity |-> None],
         processed_at |-> at]

\* Mutant of DetectedBrands: the requested brand is never appended.
DetectedBrands_noappend(clean_text, brand) == detect(clean_text)

\* Module 3: detected brands, with the requested brand appended when the
\* detector did not find it.
DetectedBrands(clean_text, brand) ==
    LET detected_brands == detect(clean_text)
    IN  IF Truthy(brand) /\ ~InList(brand, detected_brands)
        THEN Append(detected_brands, brand)
        ELSE detected_brands

\* Mutant of SarcasmInput: the first three context posts instead of the last.
SarcasmInput_first3(context_posts, clean_text) ==
    Join(Space, Take(context_posts, ContextWindow) \o <<clean_text>>)

\* Module 4: the text handed to the sarcasm model.
SarcasmInput(context_posts, clean_text) ==
    Join(Space, LastN(context_posts, ContextWindow) \o <<clean_text>>)

\* Mutant of CrisisFlag: the threshold is inclusive.
CrisisFlag_inclusive(sentiment_result) ==
    sentiment_result.label = "negative" /\ sentiment_result.score >= CrisisScoreThreshold

\* Module 8: the per-post crisis flag.
CrisisFlag(sentiment_result) ==
    sentiment_result.label = "negative" /\ sentiment_result.score > CrisisScoreThreshold

Severity(crisis_flag) == IF crisis_flag THEN "high" ELSE None

\* The PredictionResponse assembled at the end of _real_pipeline.
RealResponse(clean_text, brand, platform, sentiment_result, sarcasm_result, at) ==
    LET brand_results ==
            resolve_conflicts(
                attribute(clean_text, DetectedBrands(clean_text, brand),
                          sentiment_result, sarcasm_result,
                          detect_with_positions(clean_text)))
        emotion_result == EmotionPredict(clean_text)
        topic_result   == TopicPredict(clean_text)
        crisis_flag    == CrisisFlag(sentiment_result)
    IN  [text     |-> clean_text,
         platform |-> platform,
         overall  |-> [label |-> sentiment_result.label,
                       score |-> sentiment_result.score,
                       is_sarcastic |-> sarcasm_result.is_sarcastic,
                       sarcasm_score |-> sarcasm_result.score],
         brands   |-> [i \in 1..Len(brand_results) |->
                          [brand |-> brand_results[i].brand,
                           sentiment |-> brand_results[i].sentiment,
                           score |-> brand_results[i].score,
                           method |-> brand_results[i].method]],
         emotions |-> [emotions |-> emotion_result.emotions,
                       top_emotion |-> emotion_result.top_emotion],
         topic    |-> [topic_id |-> topic_result.topic_id,
                       label |-> topic_result.label,
                       keywords |-> topic_result.keywords],
         crisis   |-> [crisis_flag |-> crisis_flag, severity |-> Severity(crisis_flag)],
         processed_at |-> at]

\* ------------------------------------------------------------------
\* State
\* ------------------------------------------------------------------
VARIABLES
    STUB_MODE,          \* module constant of ml/api/predict.py, fixed per deployment
    _sentiment_model,   \* the four lazily loaded model globals
    _sarcasm_model,
    _emotion_model,
    _topic_model,
    assigned,           \* how many times each model global has been assigned
    classifier,         \* answers the sentiment / sarcasm classifiers have given
    now,                \* clock read by datetime.now
    pc,                 \* per thread: where it is
    route,              \* per thread: the entry point it is serving
    args,               \* per thread: the arguments of the predict_post call
    ret,                \* per thread: what predict_post returned or raised
    probe,              \* per thread: what the last call handed to its collaborators
    frame,              \* per thread: the locals of its _real_pipeline call
    history,            \* per thread: outcomes of its direct predict_post calls
    request,            \* per thread: the items of the HTTP request being served
    idx,                \* per thread: index of the item being processed
    results,            \* per thread: results accumulated by a batch
    reply,              \* per thread: what the HTTP caller received
    post_id,            \* per thread: id of the live_posts row of the current item
    wrote,              \* per thread: rows its current request has inserted
    served,             \* number of HTTP requests received
    next_id,            \* source of fresh ids (uuid4)
    live_posts,         \* table live_posts
    predictions,        \* table predictions
    crisis_alerts       \* table crisis_alerts

model_vars == <<_sentiment_model, _sarcasm_model, _emotion_model, _topic_model, assigned>>

call_vars == <<pc, route, args, ret, probe, frame, history>>

http_vars == <<request, idx, results, reply, post_id, wrote, served>>

db_vars == <<next_id, live_posts, predictions, crisis_alerts>>

vars == <<STUB_MODE, model_vars, classifier, now, call_vars, http_vars, db_vars>>

ModelNames == {"sentiment", "sarcasm", "emotion", "topic"}

NoArgs == [text |-> <<>>, brand |-> None, platform |-> "reddit", context_posts |-> <<>>]

NoRet == [kind |-> "none"]

NoProbe == [sarcasm_called |-> FALSE, sarcasm_input |-> <<>>,
            attribute_called |-> FALSE, detected_brands |-> <<>>,
            stages |-> <<>>]

NoReply == [kind |-> "none"]

NoFrame == [clean_text |-> <<>>,
            sentiment_result |-> [label |-> "neutral", score |-> 0],
            sarcasm_result |-> [is_sarcastic |-> FALSE, score |-> 0]]

NoRequest == [items |-> <<>>, brand |-> None]

Raise(error) == [kind |-> "raise", error |-> error]

Return(value) == [kind |-> "ok", value |-> value]

\* f with x mapped to v
Extend(f, x, v) == [y \in DOMAIN f \cup {x} |-> IF y = x THEN v ELSE f[y]]

\* A deterministic classifier may answer v for x.
Answers(f, x, v) == x \in DOMAIN f => f[x] = v

\* ------------------------------------------------------------------
\* ml/api/predict.py: predict_post, _load_models, _real_pipeline
\* ------------------------------------------------------------------

\* predict_post: dispatch on STUB_MODE.
PredictPost(t) ==
    /\ pc[t] = "predict_post"
    /\ IF STUB_MODE
       THEN /\ ret' = [ret EXCEPT ![t] =
                          Return(_stub_response(args[t].text, args[t].brand,
                                                args[t].platform, now))]
            /\ now' = now + 1
            /\ pc' = [pc EXCEPT ![t] = "predict_done"]
       ELSE /\ pc' = [pc EXCEPT ![t] = "real_pipeline"]
            /\ UNCHANGED <<ret, now>>
    /\ probe' = [probe EXCEPT ![t] = NoProbe]
    /\ UNCHANGED <<STUB_MODE, frame, model_vars, classifier, route, args, history,
                   http_vars, db_vars>>

\* _real_pipeline, first statement: "if _sentiment_model is None: _load_models()".
NeedsLoad == _sentiment_model = NoModel

CheckLoaded(t) ==
    /\ pc[t] = "real_pipeline"
    /\ pc' = [pc EXCEPT ![t] = IF NeedsLoad THEN "load_sentiment" ELSE "clean"]
    /\ UNCHANGED <<STUB_MODE, frame, model_vars, classifier, now, route, args, ret, probe,
                   history, http_vars, db_vars>>

\* One statement of _load_models: X.load() either returns a fresh model
\* object, which is assigned to the global, or raises out of predict_post.
LoadStep(t, at, name, next) ==
    /\ pc[t] = at
    /\ \E ok \in BOOLEAN :
         IF ok
         THEN /\ assigned' = [assigned EXCEPT ![name] = @ + 1]
              /\ _sentiment_model' = IF name = "sentiment" THEN assigned'[name]
                                     ELSE _sentiment_model
              /\ _sarcasm_model' = IF name = "sarcasm" THEN assigned'[name]
                                   ELSE _sarcasm_model
              /\ _emotion_model' = IF name = "emotion" THEN assigned'[name]
                                   ELSE _emotion_model
              /\ _topic_model' = IF name = "topic" THEN assigned'[name]
                                 ELSE _topic_model
              /\ pc' = [pc EXCEPT ![t] = next]
              /\ ret' = ret
         ELSE /\ pc' = [pc EXCEPT ![t] = "predict_done"]
              /\ ret' = [ret EXCEPT ![t] = Raise("load")]
              /\ UNCHANGED model_vars
    /\ UNCHANGED <<STUB_MODE, frame, classifier, now, route, args, probe, history,
                   http_vars, db_vars>>

LoadSentiment(t) == LoadStep(t, "load_sentiment", "sentiment", "load_sarcasm")

LoadSarcasm(t) == LoadStep(t, "load_sarcasm", "sarcasm", "load_emotion")

LoadEmotion(t) == LoadStep(t, "load_emotion", "emotion", "load_topic")

LoadTopic(t) == LoadStep(t, "load_topic", "topic", "clean")

\* Mutant of ArgsAfterCall: the current text is appended to the caller's
\* context_posts list in place.
ArgsAfterCall_appends(a, clean_text) ==
    [a EXCEPT !.context_posts = Append(@, clean_text)]

\* The caller's argument objects as the call leaves them: the context
\* window is built as a new list (slice + concatenation), nothing is
\* written back.
ArgsAfterCall(a, clean_text) == a

\* The calls _real_pipeline makes from Module 2 to Module 8, in statement
\* order.  Nothing follows the crisis flag but the construction of the
\* response.
PipelineStages ==
    <<"clean", "detect", "detect_with_positions", "sentiment", "sarcasm",
      "attribute", "resolve_conflicts", "emotion", "topic", "crisis_flag">>

\* Where a stage stands in the statement order.
StageIndex(name) == CHOOSE i \in 1..Len(PipelineStages) : PipelineStages[i] = name

\* The stages that have run when the call of stage "name" raises.
StagesBefore(name) == Take(PipelineStages, StageIndex(name) - 1)

\* The stages that have run when the call returns right after "name".
StagesThrough(name) == Take(PipelineStages, StageIndex(name))

\* The steps of _real_pipeline from Module 2 on.  A step ends at a call
\* that reads one of the model globals, so that other threads may run
\* between two reads; the calls in between (clean, detect, attribute,
\* resolve_conflicts) touch the thread's locals only.  Calling .predict on
\* a global that is still None raises AttributeError.

\* The call is over: its locals are gone.
Leave(t, outcome) ==
    /\ ret' = [ret EXCEPT ![t] = outcome]
    /\ frame' = [frame EXCEPT ![t] = NoFrame]
    /\ pc' = [pc EXCEPT ![t] = "predict_done"]

\* Modules 2 and 3: clean, the short circuit on empty text, detect.
CleanText(t) ==
    /\ pc[t] = "clean"
    /\ LET a == args[t]
           clean_text == clean(a.text, a.platform)
       IN  IF clean_text = <<>>
           THEN /\ Leave(t, Return(_stub_response(a.text, a.brand, a.platform, now)))
                /\ now' = now + 1
                /\ probe' = [probe EXCEPT ![t].stages = StagesThrough("clean")]
           ELSE /\ frame' = [frame EXCEPT ![t] =
                       [NoFrame EXCEPT !.clean_text = clean_text]]
                /\ probe' = [probe EXCEPT ![t].stages = StagesBefore("sentiment")]
                /\ pc' = [pc EXCEPT ![t] = "sentiment"]
                /\ UNCHANGED <<ret, now>>
    /\ UNCHANGED <<STUB_MODE, model_vars, classifier, route, args, history,
                   http_vars, db_vars>>

\* Module 4, first call: _sentiment_model.predict(clean_text).
PredictSentiment(t) ==
    /\ pc[t] = "sentiment"
    /\ IF _sentiment_model = NoModel
       THEN /\ Leave(t, Raise("AttributeError"))
            /\ UNCHANGED <<classifier, probe>>
       ELSE \E s \in SentimentResults :
              /\ Answers(classifier.sentiment, frame[t].clean_text, s)
              /\ classifier' = [classifier EXCEPT
                     !.sentiment = Extend(@, frame[t].clean_text, s)]
              /\ frame' = [frame EXCEPT ![t].sentiment_result = s]
              /\ probe' = [probe EXCEPT ![t].stages = StagesThrough("sentiment")]
              /\ pc' = [pc EXCEPT ![t] = "sarcasm"]
              /\ ret' = ret
    /\ UNCHANGED <<STUB_MODE, model_vars, now, route, args, history, http_vars,
                   db_vars>>

\* Module 4, second call, on the context window; then Module 5, attribute
\* and resolve_conflicts.
PredictSarcasm(t) ==
    /\ pc[t] = "sarcasm"
    /\ IF _sarcasm_model = NoModel
       THEN /\ Leave(t, Raise("AttributeError"))
            /\ UNCHANGED <<classifier, probe, args>>
       ELSE LET a == args[t]
                clean_text == frame[t].clean_text
                sarcasm_in == SarcasmInput(a.context_posts, clean_text)
            IN  \E r \in SarcasmResults :
                  /\ Answers(classifier.sarcasm, sarcasm_in, r)
                  /\ classifier' = [classifier EXCEPT
                         !.sarcasm = Extend(@, sarcasm_in, r)]
                  /\ frame' = [frame EXCEPT ![t].sarcasm_result = r]
                  /\ probe' = [probe EXCEPT ![t] =
                         [sarcasm_called |-> TRUE,
                          sarcasm_input |-> sarcasm_in,
                          attribute_called |-> TRUE,
                          detected_brands |-> DetectedBrands(clean_text, a.brand),
                          stages |-> StagesThrough("resolve_conflicts")]]
                  /\ args' = [args EXCEPT ![t] = ArgsAfterCall(a, clean_text)]
                  /\ pc' = [pc EXCEPT ![t] = "emotion"]
                  /\ ret' = ret
    /\ UNCHANGED <<STUB_MODE, model_vars, now, route, history, http_vars, db_vars>>

\* Module 6: _emotion_model.predict(clean_text).
PredictEmotion(t) ==
    /\ pc[t] = "emotion"
    /\ IF _emotion_model = NoModel
       THEN /\ Leave(t, Raise("AttributeError"))
            /\ probe' = probe
       ELSE /\ probe' = [probe EXCEPT ![t].stages = StagesThrough("emotion")]
            /\ pc' = [pc EXCEPT ![t] = "topic"]
            /\ UNCHANGED <<ret, frame>>
    /\ UNCHANGED <<STUB_MODE, model_vars, classifier, now, route, args, history,
                   http_vars, db_vars>>

\* Module 7, _topic_model.predict(clean_text); Module 8, the crisis flag;
\* the response.
PredictTopic(t) ==
    /\ pc[t] = "topic"
    /\ IF _topic_model = NoModel
       THEN /\ Leave(t, Raise("AttributeError"))
            /\ UNCHANGED <<probe, now>>
       ELSE /\ Leave(t, Return(RealResponse(frame[t].clean_text, args[t].brand,
                                             args[t].platform,
                                             frame[t].sentiment_result,
                                             frame[t].sarcasm_result, now)))
            /\ now' = now + 1
            /\ probe' = [probe EXCEPT ![t].stages = StagesThrough("crisis_flag")]
    /\ UNCHANGED <<STUB_MODE, model_vars, classifier, route, args, history,
                   http_vars, db_vars>>

\* ------------------------------------------------------------------
\* A caller that uses predict_post directly (the documented usage), calling
\* it again and again with the same argument objects.
\* ------------------------------------------------------------------
DirectCall(t) ==
    /\ pc[t] = "idle"
    /\ route[t] = "direct"
    /\ Len(history[t]) < MaxCalls
    /\ pc' = [pc EXCEPT ![t] = "predict_post"]
    /\ ret' = [ret EXCEPT ![t] = NoRet]
    /\ history' = [history EXCEPT ![t] =
                      Append(@, [passed |-> args[t], left |-> args[t], ret |-> NoRet])]
    /\ UNCHANGED <<STUB_MODE, frame, model_vars, classifier, now, route, args, probe,
                   http_vars, db_vars>>

\* The call is over: the caller has its outcome, and its argument objects
\* as the call left them.
DirectReturn(t) ==
    /\ pc[t] = "predict_done"
    /\ route[t] = "direct"
    /\ history' = [history EXCEPT ![t][Len(history[t])] =
                      [passed |-> @.passed, left |-> args[t], ret |-> ret[t]]]
    /\ pc' = [pc EXCEPT ![t] = "idle"]
    /\ UNCHANGED <<STUB_MODE, frame, model_vars, classifier, now, route, args, ret, probe,
                   http_vars, db_vars>>

\* ------------------------------------------------------------------
\* backend/app/routes/predict.py: create_prediction, batch_predict;
\* ml/api/predict.py: predict_batch.  batch_predict declares its request
\* parameter without a type and starts with "for item in request.items":
\* what it is given (a str from the query string, or the repository's
\* BatchPredictionRequest, whose list is "posts") has no such list, and the
\* request ends there.  The handlers are sync functions run
\* on the server's thread pool: every thread serves requests, nothing
\* serialises them.  None of them catches an exception; "stage" records
\* the statement that raised.
\* ------------------------------------------------------------------
ServeItems ==
    [text : {<<>>, <<"nike">>}, brand : {None, "Nike"},
     platform : {"reddit"}, context_posts : {<<>>}]

\* The posts sent to POST /predict.
PredictItems == {r \in ServeItems : r.text # <<>>}

\* The posts sent in batches.
BatchItems == {r \in ServeItems : r.text # <<>> \/ r.brand = None}

\* The batches sent, the empty one included.
Batches == SeqsUpTo(BatchItems, MaxBatch)

BatchBrands == {None, "Puma"}

\* An exception leaves the entry point and reaches its caller.
Raised(stage) == [kind |-> "error", stage |-> stage]

NoRows == [live_posts |-> 0, predictions |-> 0, crisis_alerts |-> 0]

\* The predict_post arguments an entry point builds from one item:
\* predict_batch passes "p.brand or request.brand", the HTTP handlers pass
\* the item's brand as it is.
CallArgs(name, item, batch_brand) ==
    [text |-> item.text,
     brand |-> IF name = "predict_batch" /\ ~Truthy(item.brand)
               THEN batch_brand ELSE item.brand,
     platform |-> item.platform,
     context_posts |-> item.context_posts]

\* What predict_batch returns for the results rs: a
\* BatchPredictionResponse stamped with the clock.
BatchReply(rs, at) ==
    [kind |-> "ok",
     body |-> [results |-> rs, total |-> Len(rs), processed_at |-> at]]

\* A request arrives.  With no item (an empty batch) the loop body never
\* runs and the entry point returns at once; otherwise it calls
\* predict_post for the first item.
Receive(t, name, items, batch_brand) ==
    /\ pc[t] = "idle"
    /\ route' = [route EXCEPT ![t] = name]
    /\ request' = [request EXCEPT ![t] = [items |-> items, brand |-> batch_brand]]
    /\ ret' = [ret EXCEPT ![t] = NoRet]
    /\ results' = [results EXCEPT ![t] = <<>>]
    /\ wrote' = [wrote EXCEPT ![t] = NoRows]
    /\ served' = served + 1
    /\ IF items = <<>>
       THEN /\ reply' = [reply EXCEPT ![t] = BatchReply(<<>>, now)]
            /\ now' = now + 1
            /\ idx' = [idx EXCEPT ![t] = 0]
            /\ UNCHANGED <<pc, args>>
       ELSE /\ reply' = [reply EXCEPT ![t] = NoReply]
            /\ idx' = [idx EXCEPT ![t] = 1]
            /\ args' = [args EXCEPT ![t] = CallArgs(name, items[1], batch_brand)]
            /\ pc' = [pc EXCEPT ![t] = "predict_post"]
            /\ now' = now
    /\ UNCHANGED <<STUB_MODE, frame, model_vars, classifier, probe, history, post_id,
                   db_vars>>

\* POST /predict
ReceivePredict(t) ==
    /\ served < MaxRequests
    /\ \E r \in PredictItems : Receive(t, "create_prediction", <<r>>, None)

\* POST /predict/batch: the loop header "for item in request.items"
\* raises, before any predict_post call and any row.
ReceiveBatch(t) ==
    /\ served < MaxBatchRequests
    /\ pc[t] = "idle"
    /\ route' = [route EXCEPT ![t] = "batch_predict"]
    /\ request' = [request EXCEPT ![t] = NoRequest]
    /\ ret' = [ret EXCEPT ![t] = NoRet]
    /\ results' = [results EXCEPT ![t] = <<>>]
    /\ wrote' = [wrote EXCEPT ![t] = NoRows]
    /\ idx' = [idx EXCEPT ![t] = 0]
    /\ served' = served + 1
    /\ reply' = [reply EXCEPT ![t] = Raised("request.items")]
    /\ UNCHANGED <<STUB_MODE, frame, model_vars, classifier, now, pc, args, probe,
                   history, post_id, db_vars>>

\* predict_batch(request), called by the collector
ReceivePredictBatch(t) ==
    /\ served < MaxBatchRequests
    /\ \E items \in Batches : \E b \in BatchBrands :
           Receive(t, "predict_batch", items, b)

\* The request ends with an exception.
Fail(t, stage) ==
    /\ reply' = [reply EXCEPT ![t] = Raised(stage)]
    /\ pc' = [pc EXCEPT ![t] = "idle"]
    /\ UNCHANGED <<args, ret, results, idx>>

\* The current item is done with result r: create_prediction returns it,
\* predict_batch appends it and goes on to the next item or returns the
\* list.
ItemDone(t, r) ==
    IF route[t] = "create_prediction"
    THEN /\ reply' = [reply EXCEPT ![t] = [kind |-> "ok", body |-> r]]
         /\ pc' = [pc EXCEPT ![t] = "idle"]
         /\ UNCHANGED <<args, ret, results, idx>>
    ELSE /\ results' = [results EXCEPT ![t] = Append(@, r)]
         /\ IF idx[t] = Len(request[t].items)
            THEN /\ reply' = [reply EXCEPT ![t] =
                       BatchReply(results'[t], now)]
                 /\ pc' = [pc EXCEPT ![t] = "idle"]
                 /\ UNCHANGED <<args, ret, idx>>
            ELSE /\ idx' = [idx EXCEPT ![t] = @ + 1]
                 /\ args' = [args EXCEPT ![t] =
                       CallArgs(route[t], request[t].items[idx[t] + 1],
                                request[t].brand)]
                 /\ ret' = [ret EXCEPT ![t] = NoRet]
                 /\ pc' = [pc EXCEPT ![t] = "predict_post"]
                 /\ UNCHANGED reply

\* Mutant of PredictRaised: the handler swallows the exception and answers
\* with the placeholder response.
PredictRaised_swallow(t) ==
    /\ pc[t] = "predict_done"
    /\ route[t] \in {"create_prediction", "predict_batch"}
    /\ ret[t].kind = "raise"
    /\ reply' = [reply EXCEPT ![t] =
           [kind |-> "ok",
            body |-> _stub_response(args[t].text, args[t].brand, args[t].platform, now)]]
    /\ pc' = [pc EXCEPT ![t] = "idle"]
    /\ UNCHANGED <<STUB_MODE, frame, model_vars, classifier, now, route, args, ret, probe,
                   history, request, idx, results, post_id, wrote, served,
                   db_vars>>

\* predict_post raised inside an entry point: neither create_prediction
\* nor predict_batch recovers, the exception goes out.
PredictRaised(t) ==
    /\ pc[t] = "predict_done"
    /\ route[t] \in {"create_prediction", "predict_batch"}
    /\ ret[t].kind = "raise"
    /\ Fail(t, "predict_post")
    /\ UNCHANGED <<STUB_MODE, frame, model_vars, classifier, now, route, probe, history,
                   request, post_id, wrote, served, db_vars>>

LivePostRow(id, item, result) ==
    [id |-> id, platform |-> item.platform, brand |-> item.brand,
     full_text |-> item.text, created_utc |-> result.processed_at]

PredictionRows(id, result) ==
    [i \in 1..Len(result.brands) |->
        [post_id |-> id,
         brand |-> result.brands[i].brand,
         sentiment |-> result.brands[i].sentiment,
         sentiment_score |-> result.brands[i].score,
         is_sarcastic |-> result.overall.is_sarcastic,
         sarcasm_score |-> result.overall.sarcasm_score,
         emotions |-> result.emotions.emotions,
         topic_id |-> result.topic.topic_id,
         topic_label |-> result.topic.label,
         crisis_flag |-> result.crisis.crisis_flag]]

CrisisAlertRow(item, result) ==
    [brand |-> item.brand,
     alert_type |-> "spike",
     severity |-> result.crisis.severity,
     message |-> <<"Crisis detected for ", IF item.brand = None THEN "None" ELSE item.brand>>,
     negative_pct |-> AlertNegativePct,
     z_score |-> AlertZScore,
     window_posts |-> AlertWindowPosts]

\* Steps 2 and 3 of create_prediction: new id, insert the live_posts row,
\* commit.
CommitPost(t) ==
    /\ pc[t] = "predict_done"
    /\ route[t] = "create_prediction"
    /\ ret[t].kind = "ok"
    /\ next_id' = next_id + 1
    /\ post_id' = [post_id EXCEPT ![t] = next_id]
    /\ \E ok \in BOOLEAN :
         IF ok
         THEN /\ live_posts' = Append(live_posts,
                     LivePostRow(next_id, request[t].items[idx[t]], ret[t].value))
              /\ wrote' = [wrote EXCEPT ![t].live_posts = @ + 1]
              /\ pc' = [pc EXCEPT ![t] = "predictions"]
              /\ UNCHANGED <<args, ret, results, idx, reply>>
         ELSE /\ Fail(t, "live_posts")
              /\ UNCHANGED <<live_posts, wrote>>
    /\ UNCHANGED <<STUB_MODE, frame, model_vars, classifier, now, route, probe, history,
                   request, served, predictions, crisis_alerts>>

\* Step 5: "if result.crisis.crisis_flag:" decides whether an alert row is
\* written.
AlertDue(result) == result.crisis.crisis_flag

\* Step 4: one predictions row per brand result, one commit.
CommitPredictions(t) ==
    /\ pc[t] = "predictions"
    /\ \E ok \in BOOLEAN :
         IF ok
         THEN /\ predictions' = predictions \o PredictionRows(post_id[t], ret[t].value)
              /\ wrote' = [wrote EXCEPT ![t].predictions =
                               @ + Len(ret[t].value.brands)]
              /\ IF AlertDue(ret[t].value)
                 THEN /\ pc' = [pc EXCEPT ![t] = "alert"]
                      /\ UNCHANGED <<args, ret, results, idx, reply>>
                 ELSE ItemDone(t, ret[t].value)
         ELSE /\ Fail(t, "predictions")
              /\ UNCHANGED <<predictions, wrote>>
    /\ UNCHANGED <<STUB_MODE, frame, model_vars, classifier, now, route, probe, history,
                   request, post_id, served, next_id, live_posts, crisis_alerts>>

\* Step 5: insert the crisis_alerts row, commit, then return the result.
CommitAlert(t) ==
    /\ pc[t] = "alert"
    /\ \E ok \in BOOLEAN :
         IF ok
         THEN /\ crisis_alerts' = Append(crisis_alerts,
                     CrisisAlertRow(request[t].items[idx[t]], ret[t].value))
              /\ wrote' = [wrote EXCEPT ![t].crisis_alerts = @ + 1]
              /\ ItemDone(t, ret[t].value)
         ELSE /\ Fail(t, "crisis_alerts")
              /\ UNCHANGED <<crisis_alerts, wrote>>
    /\ UNCHANGED <<STUB_MODE, frame, model_vars, classifier, now, route, probe, history,
                   request, post_id, served, next_id, live_posts, predictions>>

\* predict_batch: the list comprehension collects the next result; after
\* the last one the response is built, which reads the clock.
CollectResult(t) ==
    /\ pc[t] = "predict_done"
    /\ route[t] = "predict_batch"
    /\ ret[t].kind = "ok"
    /\ ItemDone(t, ret[t].value)
    /\ now' = IF idx[t] = Len(request[t].items) THEN now + 1 ELSE now
    /\ UNCHANGED <<STUB_MODE, frame, model_vars, classifier, route, probe, history,
                   request, post_id, wrote, served, db_vars>>

\* ------------------------------------------------------------------
\* Initial states
\* ------------------------------------------------------------------
InitCommon ==
    /\ _sentiment_model = NoModel
    /\ _sarcasm_model = NoModel
    /\ _emotion_model = NoModel
    /\ _topic_model = NoModel
    /\ assigned = [m \in ModelNames |-> 0]
    /\ classifier = [sentiment |-> <<>>, sarcasm |-> <<>>]
    /\ now = 0
    /\ pc = [t \in Threads |-> "idle"]
    /\ ret = [t \in Threads |-> NoRet]
    /\ probe = [t \in Threads |-> NoProbe]
    /\ frame = [t \in Threads |-> NoFrame]
    /\ history = [t \in Threads |-> <<>>]
    /\ request = [t \in Threads |-> NoRequest]
    /\ idx = [t \in Threads |-> 0]
    /\ results = [t \in Threads |-> <<>>]
    /\ reply = [t \in Threads |-> NoReply]
    /\ post_id = [t \in Threads |-> 0]
    /\ wrote = [t \in Threads |-> NoRows]
    /\ served = 0
    /\ next_id = 1
    /\ live_posts = <<>>
    /\ predictions = <<>>
    /\ crisis_alerts = <<>>

\* One caller, any text, brand and platform, with at most one context post.
InitPipeline ==
    /\ InitCommon
    /\ STUB_MODE \in BOOLEAN
    /\ route = [t \in Threads |-> IF t = 1 THEN "direct" ELSE "none"]
    /\ \E a \in [text : Texts, brand : BrandArgs, platform : Platforms,
                 context_posts : SeqsUpTo(ContextPosts, 1)] :
           args = [t \in Threads |-> IF t = 1 THEN a ELSE NoArgs]

PredictSteps(t) ==
    \/ PredictPost(t)
    \/ CheckLoaded(t)
    \/ LoadSentiment(t)
    \/ LoadSarcasm(t)
    \/ LoadEmotion(t)
    \/ LoadTopic(t)
    \/ CleanText(t)
    \/ PredictSentiment(t)
    \/ PredictSarcasm(t)
    \/ PredictEmotion(t)
    \/ PredictTopic(t)

DirectNext == \E t \in Threads : DirectCall(t) \/ PredictSteps(t) \/ DirectReturn(t)

SpecPipeline == InitPipeline /\ [][DirectNext]_vars

\* One caller in real mode, with up to MaxContext context posts.
InitContext ==
    /\ InitCommon
    /\ STUB_MODE = FALSE
    /\ route = [t \in Threads |-> IF t = 1 THEN "direct" ELSE "none"]
    /\ \E a \in [text : SeqsUpTo(Tokens, 1), brand : {None}, platform : Platforms,
                 context_posts : SeqsUpTo(ContextPosts, MaxContext)] :
           args = [t \in Threads |-> IF t = 1 THEN a ELSE NoArgs]

SpecContext == InitContext /\ [][DirectNext]_vars

\* Every thread of the server's pool calls the real pipeline concurrently.
InitLoad ==
    /\ InitCommon
    /\ STUB_MODE = FALSE
    /\ route = [t \in Threads |-> "direct"]
    /\ args \in [Threads -> [text : {<<>>, <<"nike">>}, brand : {None},
                             platform : {"reddit"}, context_posts : {<<>>}]]

SpecLoad == InitLoad /\ [][DirectNext]_vars

\* The HTTP server: POST /predict, served by every thread of the pool.
InitServe ==
    /\ InitCommon
    /\ STUB_MODE \in BOOLEAN
    /\ route = [t \in Threads |-> "none"]
    /\ args = [t \in Threads |-> NoArgs]

ServeNext ==
    \E t \in Threads :
        \/ ReceivePredict(t)
        \/ PredictSteps(t)
        \/ PredictRaised(t)
        \/ CommitPost(t)
        \/ CommitPredictions(t)
        \/ CommitAlert(t)

SpecServe == InitServe /\ [][ServeNext]_vars

\* The batch entry points: a batch is served, and a single post may be
\* served by another thread at the same time.
BatchNext ==
    \E t \in Threads :
        \/ ReceivePredict(t)
        \/ ReceiveBatch(t)
        \/ ReceivePredictBatch(t)
        \/ PredictSteps(t)
        \/ PredictRaised(t)
        \/ CommitPost(t)
        \/ CommitPredictions(t)
        \/ CommitAlert(t)
        \/ CollectResult(t)

SpecBatch == InitServe /\ [][BatchNext]_vars

\* ------------------------------------------------------------------
\* Properties
\* ------------------------------------------------------------------

\* The responses predict_post has returned to thread t, latest included.
Returned(t) ==
    {ret[t].value : x \in {y \in {ret[t]} : y.kind = "ok"}}
    \cup {history[t][i].ret.value :
             i \in {j \in 1..Len(history[t]) : history[t][j].ret.kind = "ok"}}

BrandEntries(resp, b) == {i \in 1..Len(resp.brands) : resp.brands[i].brand = b}

\* C1: in every response predict_post returns, crisis_flag is true exactly
\* when the overall label is negative and the overall score is strictly above
\* 0.85, and severity is "high" exactly when the flag is true, none otherwise.
C1_CrisisRule ==
    \A t \in Threads : \A resp \in Returned(t) :
        /\ resp.crisis.crisis_flag
              <=> (resp.overall.label = "negative" /\ resp.overall.score > 85)
        /\ resp.crisis.severity = (IF resp.crisis.crisis_flag THEN "high" ELSE None)

C1_Witness ==
    \E t \in Threads :
        /\ ret[t].kind = "ok"
        /\ ~STUB_MODE
        /\ ret[t].value.overall.label = "negative"
        /\ ret[t].value.overall.score = 86
        /\ ret[t].value.crisis.crisis_flag
        /\ ret[t].value.crisis.severity = "high"

\* C2: when normalization yields empty text, the real pipeline returns a
\* neutral, low-confidence placeholder whose crisis flag is false.
C2_EmptyTextIsNeutral ==
    \A t \in Threads :
        (/\ ~STUB_MODE
         /\ ret[t].kind = "ok"
         /\ clean(args[t].text, args[t].platform) = <<>>)
        => /\ ret[t].value.overall.label = "neutral"
           /\ ret[t].value.overall.score < 50
           /\ ~ret[t].value.crisis.crisis_flag

\* The sarcasm override applied to the response: the sarcasm classifier
\* was confident.
Overridden(resp) ==
    resp.overall.is_sarcastic /\ resp.overall.sarcasm_score > SarcasmThreshold

C6_SarcasmContextWindow ==
    \A t \in Threads :
        probe[t].sarcasm_called
        => LET c == args[t].context_posts
               n == Len(c)
               x == clean(args[t].text, args[t].platform)
           IN  probe[t].sarcasm_input =
                  (IF n = 0 THEN x
                   ELSE IF n = 1 THEN c[1] \o <<" ">> \o x
                   ELSE IF n = 2 THEN c[1] \o <<" ">> \o c[2] \o <<" ">> \o x
                   ELSE c[n - 2] \o <<" ">> \o c[n - 1] \o <<" ">> \o c[n] \o <<" ">> \o x)

C6_Witness ==
    \E t \in Threads :
        /\ probe[t].sarcasm_called
        /\ args[t].context_posts = <<<<"old">>, <<"brand", "new">>, <<"old">>, <<"old">>>>
        /\ probe[t].sarcasm_input =
              <<"brand", "new", " ", "old", " ", "old", " ", "nike">>

\* C4: under any interleaving of first calls, no model global is assigned
\* more than once (the models are loaded once and never replaced).
C4_ModelsLoadedOnce == \A m \in ModelNames : assigned[m] <= 1

\* Would predict_post return for these arguments, called on its own in the
\* current state, without another load attempt?
WouldSucceedAlone(a) ==
    \/ STUB_MODE
    \/ /\ _sentiment_model # NoModel
       /\ \/ clean(a.text, a.platform) = <<>>
          \/ /\ _sarcasm_model # NoModel
             /\ _emotion_model # NoModel
             /\ _topic_model # NoModel

\* C5: when predict_post fails for one item of a batch, every other item
\* that would succeed on its own still has its result returned: so a batch
\* that ended with that failure has no such other item.
C5_SiblingsSurvive ==
    \A t \in Threads :
        (/\ route[t] \in {"batch_predict", "predict_batch"}
         /\ reply[t].kind = "error"
         /\ reply[t].stage = "predict_post")
        => \A i \in 1..Len(request[t].items) :
              i # idx[t] => ~WouldSucceedAlone(CallArgs(route[t], request[t].items[i],
                                                        request[t].brand))

\* The aggregator's threshold rule on a window's statistics.  The alert
\* threshold and the absolute ceiling are not negative; 0 is the most
\* permissive value of each.
ZScoreAlertThreshold == 0

NegativePctCeiling == 0

AggregatorRuleFires(negative_pct, z_score) ==
    z_score > ZScoreAlertThreshold \/ negative_pct > NegativePctCeiling

\* C7: every crisis_alerts row comes from the aggregator's threshold rule
\* firing on the brand's window: its z-score is above the alert threshold or
\* its negative percentage above the ceiling; one flagged post alone creates
\* no row.
C7_AlertsComeFromAggregator ==
    \A i \in 1..Len(crisis_alerts) :
        AggregatorRuleFires(crisis_alerts[i].negative_pct, crisis_alerts[i].z_score)

\* C8: a request whose predict_post succeeded is never answered with the
\* error of a failed alert step.
C8_AlertFailureHarmless ==
    \A t \in Threads :
        (/\ route[t] = "create_prediction"
         /\ ret[t].kind = "ok"
         /\ reply[t].kind = "error")
        => reply[t].stage # "crisis_alerts"

\* C9: when predict_post raises while create_prediction serves a request,
\* the request has written no row to any table and the caller is answered
\* with an error.
C9_FailureSurfaced ==
    \A t \in Threads :
        (/\ route[t] = "create_prediction"
         /\ ret[t].kind = "raise")
        => /\ wrote[t] = NoRows
           /\ pc[t] = "idle" => (reply[t].kind = "error" /\ reply[t].stage = "predict_post")

C9_Witness ==
    \E t \in Threads :
        /\ route[t] = "create_prediction"
        /\ ret[t].kind = "raise"
        /\ pc[t] = "idle"
        /\ reply[t].kind = "error"
        /\ reply[t].stage = "predict_post"
        /\ Len(live_posts) >= 1
        /\ wrote[t] = NoRows

\* C10: the calls one caller makes with the same arguments return the same
\* overall, brands, emotions, topic and crisis flag, and every call leaves
\* the arguments it was passed as they were.
C10_Idempotent ==
    \A t \in Threads :
        LET h == history[t]
        IN  /\ \A i \in 1..Len(h) : h[i].ret.kind # "none" => h[i].left = h[i].passed
            /\ \A i, j \in 1..Len(h) :
                 (i < j /\ h[i].ret.kind = "ok" /\ h[j].ret.kind = "ok")
                 => /\ h[i].ret.value.overall = h[j].ret.value.overall
                    /\ h[i].ret.value.brands = h[j].ret.value.brands
                    /\ h[i].ret.value.emotions = h[j].ret.value.emotions
                    /\ h[i].ret.value.topic = h[j].ret.value.topic
                    /\ h[i].ret.value.crisis.crisis_flag = h[j].ret.value.crisis.crisis_flag

C10_Witness ==
    \E t \in Threads :
        /\ ~STUB_MODE
        /\ Len(history[t]) >= 2
        /\ history[t][1].ret.kind = "ok"
        /\ history[t][2].ret.kind = "ok"
        /\ history[t][1].passed.context_posts # <<>>
        /\ history[t][1].ret.value.overall.is_sarcastic
        /\ history[t][1].ret.value.processed_at # history[t][2].ret.value.processed_at
        /\ clean(args[t].text, args[t].platform) # <<>>

\* The stages of the documented data flow, as groups in the order the groups
\* must run: normalizer; detector, sentiment and sarcasm; attribution;
\* conflict resolution; emotion and topic; per-post crisis flag; aggregator
\* update.
DataFlow ==
    <<{"clean"},
      {"detect", "detect_with_positions", "sentiment", "sarcasm"},
      {"attribute"},
      {"resolve_conflicts"},
      {"emotion", "topic"},
      {"crisis_flag"},
      {"aggregator_update"}>>

Occurrences(stages, name) == Cardinality({i \in 1..Len(stages) : stages[i] = name})

\* Every stage of the groups runs exactly once, and every stage of an
\* earlier group before every stage of a later group.
RunsInOrder(stages, groups) ==
    /\ \A g \in 1..Len(groups) : \A n \in groups[g] : Occurrences(stages, n) = 1
    /\ \A g, h \in 1..Len(groups) :
          g < h => \A i, j \in 1..Len(stages) :
                      (stages[i] \in groups[g] /\ stages[j] \in groups[h]) => i < j

\* C11: every real-pipeline call that returns has run, when its normalized
\* text is non-empty, each stage of the data flow exactly once and in order,
\* the aggregator update last, before the response is returned; when its
\* normalized text is empty it has run the normalizer and nothing else.
C11_StagesOnceInOrder ==
    \A t \in Threads :
        (~STUB_MODE /\ ret[t].kind = "ok")
        => IF clean(args[t].text, args[t].platform) = <<>>
           THEN probe[t].stages = <<"clean">>
           ELSE RunsInOrder(probe[t].stages, DataFlow)

\* The posts received for brand b, oldest first.
PostsFor(b) == SelectSeq(live_posts, LAMBDA row : row.brand = b)

\* An alarming post: one of its predictions rows carries the crisis flag.
Alarming(row) ==
    \E k \in 1..Len(predictions) :
        predictions[k].post_id = row.id /\ predictions[k].crisis_flag

\* The runs of consecutive alarming posts among the posts for brand b.
AlarmingRuns(b) ==
    LET p == PostsFor(b)
    IN  Cardinality({i \in 1..Len(p) :
                        Alarming(p[i]) /\ (i = 1 \/ ~Alarming(p[i - 1]))})

AlertsFor(b) == Cardinality({i \in 1..Len(crisis_alerts) : crisis_alerts[i].brand = b})

\* C12: after an alert for a brand, later posts raise no further alert for
\* that brand while its posts stay alarming: a run of consecutive alarming
\* posts for one brand has one alert, so a brand never has more alerts than
\* runs of alarming posts.
C12_OneAlertPerSpike ==
    \A i \in 1..Len(crisis_alerts) :
        crisis_alerts[i].brand # None
        => AlertsFor(crisis_alerts[i].brand) <= AlarmingRuns(crisis_alerts[i].brand)

\* The aggregator's minimum sample count.  A count of 1 would gate nothing,
\* the window always holding the post just recorded; 2 is the smallest
\* count that withholds an alert.
MinimumSampleCount == 2

\* C13: no alert is emitted for a brand whose window holds fewer posts
\* than the minimum sample count: every crisis_alerts row has window_posts
\* of at least that count, and at least that many posts for its brand have
\* been received.
C13_MinimumSampleGating ==
    \A i \in 1..Len(crisis_alerts) :
        /\ crisis_alerts[i].window_posts >= MinimumSampleCount
        /\ Len(PostsFor(crisis_alerts[i].brand)) >= MinimumSampleCount

\* C14: a call reaches the stages that use the models only when all four
\* models are loaded; after a load that failed part-way the next call loads
\* again.
C14_LoadAllOrNothing ==
    \A t \in Threads :
        pc[t] \in {"sentiment", "sarcasm", "emotion", "topic"}
        => /\ _sentiment_model # NoModel
           /\ _sarcasm_model # NoModel
           /\ _emotion_model # NoModel
           /\ _topic_model # NoModel

\* The brands of the predictions rows written for post id.
PredictionBrands(id) ==
    {predictions[k].brand : k \in {j \in 1..Len(predictions) : predictions[j].post_id = id}}

\* C15: every crisis_alerts row written by create_prediction or
\* batch_predict names a brand, not null, and that brand is the brand of one
\* of the predictions rows written for the same post.
C15_AlertNamesPredictedBrand ==
    [][\A t \in Threads :
          (/\ pc[t] = "alert"
           /\ pc'[t] # "alert"
           /\ Len(crisis_alerts') = Len(crisis_alerts) + 1)
          => LET row == crisis_alerts'[Len(crisis_alerts')]
             IN  /\ row.brand # None
                 /\ row.brand \in PredictionBrands(post_id[t])]_vars

====
